---- MODULE Spec2Model ----
(***************************************************************************)
(* A model of lightwork's handler groups (handlerGroup.go, server.go), of  *)
(* the request lifecycle wrapper handlerShim, of the response tracker and  *)
(* response facade (context.go) and of the RequestLogger facade.           *)
(*                                                                         *)
(* The specifications share the variables:                                 *)
(*   SpecGroups    registration: groups, middleware lists (Go slices over  *)
(*                 a heap of backing arrays), routes, and the order in     *)
(*                 which a dispatched route runs its middleware;           *)
(*   Spec          one request through handlerShim: the handler's calls on *)
(*                 the response facade, the raw writer and the logger,     *)
(*                 then the post-conditions and the flush;                 *)
(*   SpecResponse  one request whose handler uses every operation of the   *)
(*                 response facade, the streaming ones included;           *)
(*   SpecContext   one request whose handlers set and keep context values; *)
(*   SpecConc      two requests served concurrently.                       *)
(***************************************************************************)
EXTENDS Integers, Sequences, FiniteSets, TLC

VARIABLES
  arrays,           \* the heap: backing arrays of the []Middleware slices
  groups,           \* the HandlerGroup objects, by allocation order
  routes,           \* what was handed to s.router, by registration order
  trace,            \* the marker events of the last dispatched request
  pc,               \* per request: where its handlerShim invocation is
  retErr,           \* per request: the value h(c) returned
  sink,             \* per request: the calls made on its RequestLoggerBase
  devSink,          \* per request: the sink's WTF panics (development sink)
  statusCode,       \* per request: loggingResponseWriter.statusCode
  contentLength,    \* per request: loggingResponseWriter.contentLength
  wire,             \* per request: the underlying http.ResponseWriter
  header,           \* per request: the response http.Header
  escapeHatchUsed,  \* per request: Context.escapeHatchUsed
  calls,            \* per request: the calls the composed handler made
  callErr,          \* per request: the error the handler's last call returned
  innerErr,         \* per request: the value the innermost handler returned
  ctx,              \* per request: the context.Context values made for it,
                    \* the one c.Context holds, the one the handler kept
  loggersMade       \* per request: the calls of s.NewRequestLogger it made

groupVars == <<arrays, groups, routes, trace>>
reqVars == <<pc, retErr, sink, devSink, statusCode, contentLength, wire,
             header, escapeHatchUsed, calls, callErr, innerErr, ctx,
             loggersMade>>
vars == <<arrays, groups, routes, trace, pc, retErr, sink, devSink, statusCode,
          contentLength, wire, header, escapeHatchUsed, calls, callErr,
          innerErr, ctx, loggersMade>>

(***************************************************************************)
(* Bounds                                                                  *)
(***************************************************************************)
MaxRoots == 1
MaxGroups == 3
MaxLen == 4
MaxRoutes == 1
MaxCalls == 2
MaxBody == 1
MaxShims == 2
MaxLayers == 3

NoGroup == 0
Nil == "nil"

\* The code never inspects a Middleware value, so the middleware a program
\* registers are told apart by where they were added: the k-th element of
\* group hg's list is the middleware Mw(hg, k).
Mw(hg, k) == [hg |-> hg, k |-> k]
\* The zero value of Middleware, which make() fills a new array with.
NilMiddleware == [hg |-> 0, k |-> 0]

Methods == {"GET", "POST"}

(***************************************************************************)
(* Go slices: a slice is a header (arr, len, cap) over a backing array.    *)
(***************************************************************************)
NilSlice == [arr |-> 0, len |-> 0, cap |-> 0]

\* The elements a slice header shows.
View(heap, s) == [i \in 1..s.len |-> heap[s.arr][i]]

\* make([]Middleware, n): a fresh zeroed array of n elements.
MakeSlice(heap, n) ==
  IF n = 0
    THEN [heap |-> heap, s |-> NilSlice]
    ELSE [heap |-> Append(heap, [i \in 1..n |-> NilMiddleware]),
          s |-> [arr |-> Len(heap) + 1, len |-> n, cap |-> n]]

\* copy(dst, src): min(len(dst), len(src)) elements into dst's array.
CopySlice(heap, dst, src) ==
  LET n == IF dst.len < src.len THEN dst.len ELSE src.len
  IN IF n = 0 THEN heap
     ELSE [heap EXCEPT ![dst.arr] =
             [i \in 1..Len(@) |-> IF i <= n THEN heap[src.arr][i] ELSE @[i]]]

\* The capacity append grows to: double, or the needed length when that is
\* more, rounded up to the allocator's size class for 8-byte elements.
RoundUpCap(n) == IF n <= 4 THEN n ELSE IF n % 2 = 0 THEN n ELSE n + 1
GrowCap(oldCap, newLen) ==
  RoundUpCap(IF newLen > 2 * oldCap THEN newLen ELSE 2 * oldCap)

\* append(s, ms...): in place when the capacity allows, else into a new array.
AppendSlice(heap, s, ms) ==
  LET newLen == s.len + Len(ms)
  IN IF Len(ms) = 0 THEN [heap |-> heap, s |-> s]
     ELSE IF newLen <= s.cap
       THEN [heap |-> [heap EXCEPT ![s.arr] =
                         [i \in 1..Len(@) |->
                            IF i > s.len /\ i <= newLen THEN ms[i - s.len] ELSE @[i]]],
             s |-> [s EXCEPT !.len = newLen]]
       ELSE LET newCap == GrowCap(s.cap, newLen)
                old == View(heap, s)
            IN [heap |-> Append(heap,
                           [i \in 1..newCap |->
                              IF i <= s.len THEN old[i]
                              ELSE IF i <= newLen THEN ms[i - s.len] ELSE NilMiddleware]),
                s |-> [arr |-> Len(heap) + 1, len |-> newLen, cap |-> newCap]]

\* Go collects the arrays no slice refers to, and a program cannot observe an
\* array's address: the heap keeps the arrays the groups' slices refer to,
\* numbered by the first group that refers to each.
FirstRef(gs, a) == CHOOSE g \in 1..Len(gs) :
                     /\ gs[g].middlewareList.arr = a
                     /\ \A f \in 1..(g - 1) : gs[f].middlewareList.arr # a
LiveArrays(gs) == {gs[g].middlewareList.arr : g \in 1..Len(gs)} \ {0}
NewAddr(gs, a) ==
  IF a = 0 THEN 0
  ELSE Cardinality({b \in LiveArrays(gs) : FirstRef(gs, b) <= FirstRef(gs, a)})
CollectHeap(heap, gs) ==
  [j \in 1..Cardinality(LiveArrays(gs)) |->
     heap[CHOOSE a \in LiveArrays(gs) : NewAddr(gs, a) = j]]
CollectGroups(gs) ==
  [g \in 1..Len(gs) |->
     [gs[g] EXCEPT !.middlewareList.arr = NewAddr(gs, @)]]

(***************************************************************************)
(* Handlers and middleware.  A Handler value is a closure: the leaf, or a  *)
(* middleware's closure over the handler it was given as next.             *)
(***************************************************************************)
Leaf(name) == [kind |-> "leaf", name |-> name]

\* ml[i](fullHandler) for a marker middleware: its handler notes "pre",
\* calls next, notes "post".
ApplyMiddleware(m, next) == [kind |-> "mw", m |-> m, next |-> next]

RECURSIVE RunHandler(_)
RunHandler(h) ==
  IF h.kind = "leaf"
    THEN <<[ev |-> "leaf", who |-> h.name]>>
    ELSE <<[ev |-> "pre", who |-> h.m]>> \o RunHandler(h.next)
           \o <<[ev |-> "post", who |-> h.m]>>

\* The loop of middlewareHandler: i from len(ml)-1 down to 0 (here len..1).
RECURSIVE WrapFrom(_, _, _)
WrapFrom(ml, i, fullHandler) ==
  IF i < 1 THEN fullHandler
  ELSE WrapFrom(ml, i - 1, ApplyMiddleware(ml[i], fullHandler))

RECURSIVE WrapFromFirst(_, _, _)
WrapFromFirst(ml, i, fullHandler) ==
  IF i > Len(ml) THEN fullHandler
  ELSE WrapFromFirst(ml, i + 1, ApplyMiddleware(ml[i], fullHandler))

\* A middlewareHandler whose loop runs from the first element to the last.
middlewareHandlerAscending(ml, userHandler) == WrapFromFirst(ml, 1, userHandler)

middlewareHandler(ml, userHandler) == WrapFrom(ml, Len(ml), userHandler)

\* The middleware list of group g, as the group's slice header shows it.
GroupList(g) == View(arrays, groups[g].middlewareList)

\* A GetHandlerGroup that shares the parent's slice instead of copying it.
DeriveListShared(heap, parentList) == [heap |-> heap, s |-> parentList]

\* A GetHandlerGroup that makes the child's slice and forgets to copy.
DeriveListNoCopy(heap, parentList) == MakeSlice(heap, parentList.len)

\* handlerGroup.go 58 and 61: make a slice of the parent's length, copy.
DeriveList(heap, parentList) ==
  LET made == MakeSlice(heap, parentList.len)
  IN [heap |-> CopySlice(made.heap, made.s, parentList), s |-> made.s]

\* A handlerShim that composes the chain inside the closure, per request.
ShimHandlerPerRequest(rt) == middlewareHandler(GroupList(rt.hg), Leaf(rt.leaf))

\* The handler the closure of handlerShim calls: h, composed at line 20.
ShimHandler(rt) == rt.h

(***************************************************************************)
(* Registration                                                            *)
(***************************************************************************)
\* Server.GetHandlerGroup
ServerGetHandlerGroup(basePath) ==
  /\ Len(groups) < MaxGroups
  /\ Cardinality({g \in 1..Len(groups) : groups[g].parent = NoGroup}) < MaxRoots
  /\ groups' = Append(groups, [parent |-> NoGroup,
                               middlewareList |-> MakeSlice(arrays, 0).s,
                               basePath |-> basePath])
  /\ arrays' = MakeSlice(arrays, 0).heap
  /\ UNCHANGED <<routes, trace>>
  /\ UNCHANGED reqVars

\* HandlerGroup.GetHandlerGroup (and AddHandlerGroup, which calls it)
GetHandlerGroup(ohg, basePath) ==
  /\ Len(groups) < MaxGroups
  /\ LET d == DeriveList(arrays, groups[ohg].middlewareList)
         gs == Append(groups, [parent |-> ohg,
                               middlewareList |-> d.s,
                               basePath |-> groups[ohg].basePath \o basePath])
     IN /\ arrays' = CollectHeap(d.heap, gs)
        /\ groups' = CollectGroups(gs)
  /\ UNCHANGED <<routes, trace>>
  /\ UNCHANGED reqVars

\* HandlerGroup.AddMiddleware
AddMiddleware(hg, m) ==
  /\ groups[hg].middlewareList.len + Len(m) <= MaxLen
  /\ LET a == AppendSlice(arrays, groups[hg].middlewareList, m)
         gs == [groups EXCEPT ![hg].middlewareList = a.s]
     IN /\ arrays' = CollectHeap(a.heap, gs)
        /\ groups' = CollectGroups(gs)
  /\ UNCHANGED <<routes, trace>>
  /\ UNCHANGED reqVars

\* HandlerGroup.GET, POST, ...: path = hg.basePath + path, then
\* hg.s.router.<METHOD>(path, hg.handlerShim(h)); the router refuses a
\* second handler for the same method and path.
RegisterRoute(hg, method, path, leafName) ==
  /\ Len(routes) < MaxRoutes
  /\ LET full == groups[hg].basePath \o path
     IN /\ \A i \in 1..Len(routes) :
             ~(routes[i].method = method /\ routes[i].path = full)
        /\ routes' = Append(routes,
             [method |-> method, path |-> full, hg |-> hg, leaf |-> leafName,
              h |-> middlewareHandler(GroupList(hg), Leaf(leafName))])
  /\ UNCHANGED <<arrays, groups, trace>>
  /\ UNCHANGED reqVars

\* The router dispatches a request to a registered route.
DispatchRoute(i) ==
  /\ i \in 1..Len(routes)
  /\ trace' = [route |-> i, events |-> RunHandler(ShimHandler(routes[i]))]
  /\ UNCHANGED <<arrays, groups, routes>>
  /\ UNCHANGED reqVars

\* The arguments a program gives to one AddMiddleware call (m ...Middleware):
\* one or two middleware not registered before.
AddInputs(hg) ==
  LET n == groups[hg].middlewareList.len
  IN {<<Mw(hg, n + 1)>>, <<Mw(hg, n + 1), Mw(hg, n + 2)>>}

Reqs == {"r1"}

InitGroups ==
  /\ arrays = <<>>
  /\ groups = <<>>
  /\ routes = <<>>
  /\ trace = [route |-> 0, events |-> <<>>]

\* No request has arrived yet; rs are the requests that will be served.
InitReqsOver(rs) ==
  /\ pc = [r \in rs |-> "idle"]
  /\ retErr = [r \in rs |-> Nil]
  /\ sink = [r \in rs |-> <<>>]
  /\ devSink = [r \in rs |-> FALSE]
  /\ statusCode = [r \in rs |-> 0]
  /\ contentLength = [r \in rs |-> 0]
  /\ wire = [r \in rs |-> [wroteHeader |-> FALSE, status |-> 0, bytes |-> 0]]
  /\ header = [r \in rs |-> [k \in {"Content-Length", "Content-Type"} |-> <<>>]]
  /\ escapeHatchUsed = [r \in rs |-> FALSE]
  /\ calls = [r \in rs |-> <<>>]
  /\ callErr = [r \in rs |-> Nil]
  /\ innerErr = [r \in rs |-> Nil]
  /\ ctx = [r \in rs |-> [nodes |-> <<>>, cur |-> 0, kept |-> 0]]
  /\ loggersMade = [r \in rs |-> 0]

InitReqs == InitReqsOver(Reqs)

Init == InitGroups /\ InitReqs

NextGroups ==
  \/ ServerGetHandlerGroup("/api")
  \/ \E ohg \in 1..Len(groups) : GetHandlerGroup(ohg, "/v1")
  \/ \E hg \in 1..Len(groups) : \E m \in AddInputs(hg) : AddMiddleware(hg, m)
  \/ \E hg \in 1..Len(groups) : \E method \in Methods :
       RegisterRoute(hg, method, "/items", "leaf")
  \/ \E i \in 1..Len(routes) : DispatchRoute(i)

SpecGroups == Init /\ [][NextGroups]_vars

(***************************************************************************)
(* The response tracker (loggingResponseWriter) over the transport's       *)
(* http.ResponseWriter.  A writer state w is                               *)
(*   [statusCode, contentLength, wire, panicked]                           *)
(* and a call on a writer that has panicked is never reached.              *)
(***************************************************************************)
Codes == {0, 99, 204, 404}
BodyLens == 0..MaxBody
Errs == {"boom"}
StatusOK == 200
MinStatus == 100
MaxStatus == 999

NewWire == [wroteHeader |-> FALSE, status |-> 0, bytes |-> 0]

\* The transport's WriteHeader: it panics on a code outside 100..999, ignores
\* a second call, and otherwise sends the status line.
WireWriteHeader(w, code) ==
  IF code < MinStatus \/ code > MaxStatus
    THEN [w EXCEPT !.panicked = TRUE]
    ELSE IF w.wire.wroteHeader THEN w
    ELSE [w EXCEPT !.wire.wroteHeader = TRUE, !.wire.status = code]

\* A WriteHeader that forwards the code and does not record it.
LrwWriteHeaderUntracked(w, code) ==
  IF w.panicked THEN w ELSE WireWriteHeader(w, code)

\* loggingResponseWriter.WriteHeader
LrwWriteHeader(w, code) ==
  IF w.panicked THEN w
  ELSE WireWriteHeader([w EXCEPT !.statusCode = code], code)

\* loggingResponseWriter.Write: the transport sends status 200 first when no
\* status was sent, then writes n bytes (all of them, or none when it fails).
LrwWrite(w, len, ok) ==
  IF w.panicked THEN w
  ELSE LET n == IF ok THEN len ELSE 0
           sent == IF w.wire.wroteHeader THEN w
                   ELSE [w EXCEPT !.wire.wroteHeader = TRUE, !.wire.status = StatusOK]
       IN [sent EXCEPT !.wire.bytes = @ + n, !.contentLength = @ + n]

\* http.Header: a map from key to the list of its values.
HeaderKeys == {"Content-Type", "Content-Length"}
NewHeader == [k \in HeaderKeys |-> <<>>]
HeaderGet(h, key) == IF h[key] = <<>> THEN "" ELSE h[key][1]
HeaderSet(h, key, value) == [h EXCEPT ![key] = <<value>>]

\* ContextResponse.setHeaderIfNotAlreadySet
setHeaderIfNotAlreadySet(h, key, value) ==
  IF HeaderGet(h, key) # "" THEN h ELSE HeaderSet(h, key, value)

\* strconv.Itoa for a length
Digit(d) == <<"0", "1", "2", "3", "4", "5", "6", "7", "8", "9">>[d + 1]
RECURSIVE Itoa(_)
Itoa(n) == IF n < 10 THEN Digit(n) ELSE Itoa(n \div 10) \o Digit(n % 10)
\* strconv.FormatInt(n, 10) for a difference of two positions
FormatInt(n) == IF n < 0 THEN "-" \o Itoa(0 - n) ELSE Itoa(n)

\* The values a handler gives the Content-Type header itself; the empty
\* value is the one that switches the transport's content sniffing off.
ContentTypes == {"", "text/html"}
OctetStream == "application/octet-stream"
TextPlain == "text/plain"

\* The header after ContextResponse.Bytes with a body of len bytes
BytesHeader(h, len) ==
  HeaderSet(setHeaderIfNotAlreadySet(h, "Content-Type", OctetStream),
            "Content-Length", Itoa(len))

\* The header after ContextResponse.String: text/plain if not already set,
\* then what Bytes does.
StringHeader(h, len) ==
  BytesHeader(setHeaderIfNotAlreadySet(h, "Content-Type", TextPlain), len)

\* The errors of the world under the facade: a failed Write of the
\* transport, a failed Seek of a stream, a failed os.Open.
WriteErr == "write failed"
SeekErr == "seek failed"
OpenErr == "open failed"
\* fmt.Errorf("failed to write body: %w", err) of Bytes
BytesErr(ok) == IF ok THEN Nil ELSE "failed to write body: " \o WriteErr
AbortErr == "failed to safely determine stream length - aborting"

(***************************************************************************)
(* The RequestLogger facade over the sink.  A logger state l is            *)
(*   [log, dev, panicked]: the calls made on the sink so far, whether the  *)
(* sink is a development sink (its WTF panics), whether a call panicked.   *)
(* A message is the sequence of the fragments fmt.Sprintf joins.           *)
(***************************************************************************)
Levels == {"Info", "Warning", "Error", "WTF"}
NoResponseMsg == <<"Handler didn't write a response">>
ErrorFormat == <<"Error returned from request handler: ", "%v">>
StackTraceMsg == <<"Stack Trace:\n", "goroutine 1 [running]: ...">>
HandlerMsg == <<"from the handler">>
HandlerFormat == <<"from the handler: ", "%v">>
HandlerValue == "42"

\* fmt.Sprintf(format, value) with one %v
Sprintf(format, value) ==
  [i \in 1..Len(format) |-> IF format[i] = "%v" THEN value ELSE format[i]]

\* One call on the RequestLoggerBase; by is the code that logs ("handler" or
\* "shim").  WTF on a development sink records the call and panics.
SinkCall(l, level, msg, by) ==
  IF l.panicked THEN l
  ELSE [l EXCEPT !.log = Append(@, [level |-> level, msg |-> msg, by |-> by]),
                 !.panicked = (l.dev /\ level = "WTF")]

\* RequestLogger.Info, Warning, Error
RLPlain(l, level, msg, by) == SinkCall(l, level, msg, by)

\* RequestLogger.Errorf
RLErrorf(l, format, value, by) == RLPlain(l, "Error", Sprintf(format, value), by)

\* A WTF that delegates the message and records no stack trace.
RLWTFNoStack(l, msg, by) == SinkCall(l, "WTF", msg, by)

\* A WTF that records the stack trace before the message.
RLWTFStackFirst(l, msg, by) ==
  SinkCall(SinkCall(l, "WTF", StackTraceMsg, by), "WTF", msg, by)

\* RequestLogger.WTF: the message, then the stack trace as a second WTF.
RLWTF(l, msg, by) ==
  SinkCall(SinkCall(l, "WTF", msg, by), "WTF", StackTraceMsg, by)

RLLog(l, level, msg, by) ==
  IF level = "WTF" THEN RLWTF(l, msg, by) ELSE RLPlain(l, level, msg, by)

\* RequestLogger.Infof, Warningf, Errorf, WTFf: fmt.Sprintf, then the plain
\* operation of the same level.
RLLogf(l, level, format, value, by) == RLLog(l, level, Sprintf(format, value), by)

\* RequestLoggerBase.WriteLogs
WriteLogs(l) ==
  IF l.panicked THEN l
  ELSE [l EXCEPT !.log = Append(@, [level |-> "WriteLogs", msg |-> <<>>, by |-> "shim"])]

\* handlerShim lines 34 to 40, after h(c) returned err with the tracked
\* status at status.
PostConditions(l, err, status) ==
  LET l1 == IF err # Nil THEN RLErrorf(l, ErrorFormat, err, "shim") ELSE l
      l2 == IF status = 0 THEN RLWTF(l1, NoResponseMsg, "shim") ELSE l1
  IN WriteLogs(l2)

\* A closure that answers 500 itself when the handler wrote no response.
PostConditionsDefault500(w) ==
  IF w.statusCode = 0 THEN LrwWriteHeader(w, 500) ELSE w

\* The writer after lines 34 to 40: they read c.Response.rw.statusCode and
\* make no call on the writer.
PostConditionsWriter(w) == w

(***************************************************************************)
(* Streaming responses.  A stream is [pos, size, fails, ok]: the reader's  *)
(* position and total length, which of StreamReadSeeker's three seeks is   *)
(* the first to fail ("none" if none does), and whether the transport      *)
(* accepts the body (it cannot refuse a body that is never written: an     *)
(* exhausted reader, or a failed restoring seek).  A response operation's  *)
(* outcome is [w, h, l, err]: the writer, the header, the logger and the   *)
(* error it returns.                                                       *)
(***************************************************************************)
SeekFails == {"none", "current", "end", "restore"}
Streams ==
  {s \in [pos : 0..MaxBody, size : 0..MaxBody, fails : SeekFails, ok : BOOLEAN] :
     /\ s.pos <= s.size
     /\ ~s.ok => (s.pos < s.size /\ s.fails # "restore")}
Remaining(stream) == stream.size - stream.pos

CurrentPosFormat == <<"Unable to determine current stream position: ", "%v">>
TotalLenFormat == <<"Unable to determine total stream length: ", "%v">>
RestoreFormat == <<"Unable to restore stream position after reading length: ", "%v">>
FallbackMsg == <<"Falling back to chunked streaming">>

\* RequestLogger.Warningf
RLWarningf(l, format, value, by) == RLPlain(l, "Warning", Sprintf(format, value), by)

\* ContextResponse.Stream: WriteHeader, then io.Copy writes what the reader
\* still holds (no Write at all for an exhausted reader).
StreamOutcome(w, h, l, code, stream) ==
  LET n == Remaining(stream)
      w1 == LrwWriteHeader(w, code)
  IN [w |-> IF n = 0 THEN w1 ELSE LrwWrite(w1, n, stream.ok),
      h |-> h, l |-> l,
      err |-> IF n > 0 /\ ~stream.ok THEN WriteErr ELSE Nil]

\* The fallback of StreamReadSeeker: Warningf, Info, Stream.
FallbackOutcome(w, h, l, code, stream, format) ==
  StreamOutcome(w, h,
                RLPlain(RLWarningf(l, format, SeekErr, "response"),
                        "Info", FallbackMsg, "response"),
                code, stream)

\* A StreamReadSeeker that announces the stream's total length.
StreamReadSeekerTotalLen(w, h, l, code, stream) ==
  IF stream.fails = "current"
    THEN FallbackOutcome(w, h, l, code, stream, CurrentPosFormat)
  ELSE IF stream.fails = "end"
    THEN FallbackOutcome(w, h, l, code, stream, TotalLenFormat)
  ELSE IF stream.fails = "restore"
    THEN [w |-> w, h |-> h,
          l |-> RLErrorf(l, RestoreFormat, SeekErr, "response"),
          err |-> AbortErr]
  ELSE StreamOutcome(w, HeaderSet(h, "Content-Length", FormatInt(stream.size)),
                     l, code, stream)

\* A StreamReadSeeker that sets Content-Length before it restores the
\* position.
StreamReadSeekerLengthFirst(w, h, l, code, stream) ==
  IF stream.fails = "current"
    THEN FallbackOutcome(w, h, l, code, stream, CurrentPosFormat)
  ELSE IF stream.fails = "end"
    THEN FallbackOutcome(w, h, l, code, stream, TotalLenFormat)
  ELSE IF stream.fails = "restore"
    THEN [w |-> w,
          h |-> HeaderSet(h, "Content-Length", FormatInt(stream.size - stream.pos)),
          l |-> RLErrorf(l, RestoreFormat, SeekErr, "response"),
          err |-> AbortErr]
  ELSE StreamOutcome(w, HeaderSet(h, "Content-Length",
                                  FormatInt(stream.size - stream.pos)),
                     l, code, stream)

\* ContextResponse.StreamReadSeeker
StreamReadSeekerOutcome(w, h, l, code, stream) ==
  IF stream.fails = "current"
    THEN FallbackOutcome(w, h, l, code, stream, CurrentPosFormat)
  ELSE IF stream.fails = "end"
    THEN FallbackOutcome(w, h, l, code, stream, TotalLenFormat)
  ELSE IF stream.fails = "restore"
    THEN [w |-> w, h |-> h,
          l |-> RLErrorf(l, RestoreFormat, SeekErr, "response"),
          err |-> AbortErr]
  ELSE StreamOutcome(w, HeaderSet(h, "Content-Length",
                                  FormatInt(stream.size - stream.pos)),
                     l, code, stream)

\* ContextResponse.File: os.Open, then StreamReadSeeker from position 0.
FileOutcome(w, h, l, code, opened, stream) ==
  IF ~opened
    THEN [w |-> w, h |-> h, l |-> l, err |-> "failed to open file: " \o OpenErr]
    ELSE StreamReadSeekerOutcome(w, h, l, code, [stream EXCEPT !.pos = 0])

\* ClassicHandlerShim: the handler returns nil once ServeHTTP returns.
ClassicHandlerShim(served) == Nil

\* The handler ClassicMiddlewareShim returns, when the next handler its
\* classic middleware invokes returns nextErr: line 24 calls n(c) and drops
\* its result, line 28 returns what ClassicHandlerShim's handler returns.
ClassicMiddlewareShim(nextErr) == ClassicHandlerShim(nextErr)

\* The error that leaves k nested ClassicMiddlewareShim wrappers around a
\* handler that returned err.
RECURSIVE ThroughShims(_, _)
ThroughShims(k, err) ==
  IF k = 0 THEN err ELSE ClassicMiddlewareShim(ThroughShims(k - 1, err))

(***************************************************************************)
(* Context values.  A context.Context is Background (0) or a valueCtx, an  *)
(* immutable node [parent, key, val] in the list nodes of the nodes made   *)
(* for the request; a SimpleCtx holds one of them.                         *)
(***************************************************************************)
Background == 0
CtxKeys == {"user", "trace"}
CtxVals == {"a", "b"}
NewCtx == [nodes |-> <<>>, cur |-> Background, kept |-> Background]

\* Context.Value(key): the innermost layer with the key, nil if none.
RECURSIVE Value(_, _, _)
Value(nodes, id, key) ==
  IF id = Background THEN Nil
  ELSE IF nodes[id].key = key THEN nodes[id].val
  ELSE Value(nodes, nodes[id].parent, key)

\* A SetValue that writes the key into the context value it holds.
SetValueInPlace(c, key, value) ==
  IF c.cur = Background
    THEN [c EXCEPT !.nodes = Append(@, [parent |-> Background, key |-> key,
                                        val |-> value]),
                   !.cur = Len(c.nodes) + 1]
    ELSE [c EXCEPT !.nodes[c.cur] = [parent |-> @.parent, key |-> key, val |-> value]]

\* SimpleCtx.SetValue: ctx.Context = context.WithValue(ctx.Context, key,
\* value), a new node over the one held, which the SimpleCtx then holds.
SetValue(c, key, value) ==
  [c EXCEPT !.nodes = Append(@, [parent |-> c.cur, key |-> key, val |-> value]),
            !.cur = Len(c.nodes) + 1]

(***************************************************************************)
(* One request through the closure handlerShim returns                     *)
(***************************************************************************)
\* A closure that uses one Context for all the requests it serves.
ContextPerRoute(r) == "r1"

\* The Context of invocation r: line 22 builds a new one in each invocation
\* of the closure, and it is named by the invocation.  The tracker, the
\* header, the logger with its sink, the escape-hatch flag and the context
\* values are reached through it.
ContextOf(r) == r

Writer(r) == [statusCode |-> statusCode[ContextOf(r)],
              contentLength |-> contentLength[ContextOf(r)],
              wire |-> wire[ContextOf(r)], panicked |-> FALSE]
Logger(r) == [log |-> sink[ContextOf(r)], dev |-> devSink[ContextOf(r)],
              panicked |-> FALSE]

InHandler(r) == pc[r] = "handler" /\ Len(calls[r]) < MaxCalls

\* What a call of the handler leaves: the writer w, the header h, the logger
\* l; the handler goes on unless the call panicked.
AfterCall(r, call, w, h, l, e) ==
  /\ statusCode' = [statusCode EXCEPT ![ContextOf(r)] = w.statusCode]
  /\ contentLength' = [contentLength EXCEPT ![ContextOf(r)] = w.contentLength]
  /\ wire' = [wire EXCEPT ![ContextOf(r)] = w.wire]
  /\ header' = [header EXCEPT ![ContextOf(r)] = h]
  /\ sink' = [sink EXCEPT ![ContextOf(r)] = l.log]
  /\ calls' = [calls EXCEPT ![r] = Append(@, call)]
  /\ callErr' = [callErr EXCEPT ![r] = IF w.panicked \/ l.panicked THEN Nil ELSE e]
  /\ pc' = [pc EXCEPT ![r] = IF w.panicked \/ l.panicked THEN "panicHandler" ELSE "handler"]
  /\ UNCHANGED <<retErr, devSink, innerErr, ctx, loggersMade>>
  /\ UNCHANGED groupVars

\* The router calls the closure: lines 22 to 31 build the Context and ask the
\* factory for the request's sink (a production or a development sink), and
\* line 33 enters the composed handler.
Dispatch(r, dev) ==
  /\ pc[r] \in {"idle", "done", "panicHandler", "panicShim"}
  /\ pc' = [pc EXCEPT ![r] = "handler"]
  /\ retErr' = [retErr EXCEPT ![r] = Nil]
  /\ sink' = [sink EXCEPT ![ContextOf(r)] = <<>>]
  /\ devSink' = [devSink EXCEPT ![ContextOf(r)] = dev]
  /\ statusCode' = [statusCode EXCEPT ![ContextOf(r)] = 0]
  /\ contentLength' = [contentLength EXCEPT ![ContextOf(r)] = 0]
  /\ wire' = [wire EXCEPT ![ContextOf(r)] = NewWire]
  /\ header' = [header EXCEPT ![ContextOf(r)] = NewHeader]
  /\ escapeHatchUsed' = [escapeHatchUsed EXCEPT ![ContextOf(r)] = FALSE]
  /\ calls' = [calls EXCEPT ![r] = <<>>]
  /\ callErr' = [callErr EXCEPT ![r] = Nil]
  /\ innerErr' = [innerErr EXCEPT ![r] = Nil]
  /\ ctx' = [ctx EXCEPT ![ContextOf(r)] = NewCtx]
  /\ loggersMade' = [loggersMade EXCEPT ![r] = 1]
  /\ UNCHANGED groupVars

\* ContextResponse.Status
RespStatus(r, code) ==
  /\ InHandler(r)
  /\ AfterCall(r, [op |-> "Status", code |-> code],
               LrwWriteHeader(Writer(r), code),
               HeaderSet(header[ContextOf(r)], "Content-Length", "0"),
               Logger(r), Nil)
  /\ UNCHANGED escapeHatchUsed

\* ContextResponse.Bytes
RespBytes(r, code, len, ok) ==
  /\ InHandler(r)
  /\ AfterCall(r, [op |-> "Bytes", code |-> code],
               LrwWrite(LrwWriteHeader(Writer(r), code), len, ok),
               BytesHeader(header[ContextOf(r)], len),
               Logger(r), BytesErr(ok))
  /\ UNCHANGED escapeHatchUsed

\* ContextResponse.String
RespString(r, code, len, ok) ==
  /\ InHandler(r)
  /\ AfterCall(r, [op |-> "String", code |-> code],
               LrwWrite(LrwWriteHeader(Writer(r), code), len, ok),
               StringHeader(header[ContextOf(r)], len),
               Logger(r), BytesErr(ok))
  /\ UNCHANGED escapeHatchUsed

\* What a response operation with outcome o leaves.
AfterOutcome(r, call, o) ==
  \E out \in {o} : AfterCall(r, call, out.w, out.h, out.l, out.err)

\* ContextResponse.Struct: WriteHeader, then the server's EncodeStruct writes
\* len bytes to the tracker (its io.Writer) or fails.
RespStruct(r, code, len, ok) ==
  /\ InHandler(r)
  /\ AfterCall(r, [op |-> "Struct", code |-> code],
               LrwWrite(LrwWriteHeader(Writer(r), code), len, ok),
               header[ContextOf(r)], Logger(r), IF ok THEN Nil ELSE WriteErr)
  /\ UNCHANGED escapeHatchUsed

\* ContextResponse.Stream
RespStream(r, code, stream) ==
  /\ InHandler(r)
  /\ AfterOutcome(r, [op |-> "Stream", code |-> code],
                  StreamOutcome(Writer(r), header[ContextOf(r)], Logger(r), code, stream))
  /\ UNCHANGED escapeHatchUsed

\* ContextResponse.StreamReadSeeker
RespStreamReadSeeker(r, code, stream) ==
  /\ InHandler(r)
  /\ AfterOutcome(r, [op |-> "StreamReadSeeker", code |-> code],
                  StreamReadSeekerOutcome(Writer(r), header[ContextOf(r)], Logger(r),
                                          code, stream))
  /\ UNCHANGED escapeHatchUsed

\* ContextResponse.File
RespFile(r, code, opened, stream) ==
  /\ InHandler(r)
  /\ AfterOutcome(r, [op |-> "File", code |-> code],
                  FileOutcome(Writer(r), header[ContextOf(r)], Logger(r), code, opened,
                              stream))
  /\ UNCHANGED escapeHatchUsed

\* The handler sets the Content-Type itself: c.Response.Header().Set(...)
HandlerSetHeader(r, value) ==
  /\ InHandler(r)
  /\ AfterCall(r, [op |-> "Header.Set", code |-> 0],
               Writer(r), HeaderSet(header[ContextOf(r)], "Content-Type", value), Logger(r),
               Nil)
  /\ UNCHANGED escapeHatchUsed

\* The handler calls WriteHeader on c.Response.rw itself: on the writer
\* EscapeHatch returned, or as the http.Handler ClassicHandlerShim serves.
RawWriteHeader(r, viaEscapeHatch, code) ==
  /\ InHandler(r)
  /\ AfterCall(r, [op |-> "rw.WriteHeader", code |-> code],
               LrwWriteHeader(Writer(r), code), header[ContextOf(r)], Logger(r), Nil)
  /\ escapeHatchUsed' = [escapeHatchUsed EXCEPT ![ContextOf(r)] = @ \/ viaEscapeHatch]

\* The handler calls Write on c.Response.rw itself, likewise.
RawWrite(r, viaEscapeHatch, len, ok) ==
  /\ InHandler(r)
  /\ AfterCall(r, [op |-> "rw.Write", code |-> 0],
               LrwWrite(Writer(r), len, ok), header[ContextOf(r)], Logger(r),
               IF ok THEN Nil ELSE WriteErr)
  /\ escapeHatchUsed' = [escapeHatchUsed EXCEPT ![ContextOf(r)] = @ \/ viaEscapeHatch]

\* The handler logs through c.Log.
HandlerLog(r, level) ==
  /\ InHandler(r)
  /\ AfterCall(r, [op |-> level, code |-> 0],
               Writer(r), header[ContextOf(r)], RLLog(Logger(r), level, HandlerMsg, "handler"),
               Nil)
  /\ UNCHANGED escapeHatchUsed

\* The handler logs through c.Log with a formatted variant.
HandlerLogf(r, level) ==
  /\ InHandler(r)
  /\ AfterCall(r, [op |-> level \o "f", code |-> 0],
               Writer(r), header[ContextOf(r)],
               RLLogf(Logger(r), level, HandlerFormat, HandlerValue, "handler"),
               Nil)
  /\ UNCHANGED escapeHatchUsed

\* A middleware or the leaf calls c.Context.SetValue(key, value).
CtxSetValue(r, key, value) ==
  /\ pc[r] = "handler"
  /\ Len(ctx[ContextOf(r)].nodes) < MaxLayers
  /\ ctx' = [ctx EXCEPT ![ContextOf(r)] = SetValue(ctx[ContextOf(r)], key, value)]
  /\ UNCHANGED <<pc, retErr, sink, devSink, statusCode, contentLength, wire,
                 header, escapeHatchUsed, calls, callErr, innerErr, loggersMade>>
  /\ UNCHANGED groupVars

\* A middleware or the leaf keeps the context value c.Context holds now.
CtxKeep(r) ==
  /\ pc[r] = "handler"
  /\ ctx[ContextOf(r)].kept # ctx[ContextOf(r)].cur
  /\ ctx' = [ctx EXCEPT ![ContextOf(r)].kept = ctx[ContextOf(r)].cur]
  /\ UNCHANGED <<pc, retErr, sink, devSink, statusCode, contentLength, wire,
                 header, escapeHatchUsed, calls, callErr, innerErr, loggersMade>>
  /\ UNCHANGED groupVars

\* The composed handler panics in its own code.
HandlerPanic(r) ==
  /\ pc[r] = "handler"
  /\ pc' = [pc EXCEPT ![r] = "panicHandler"]
  /\ UNCHANGED <<retErr, sink, devSink, statusCode, contentLength, wire, header,
                 escapeHatchUsed, calls, callErr, innerErr, ctx, loggersMade>>
  /\ UNCHANGED groupVars

\* The innermost handler returned inner, h(c) returns err and the closure
\* runs lines 34 to 40; a panic of the sink's WTF leaves the closure at once.
ReturnStep(r, inner, err) ==
  /\ pc[r] = "handler"
  /\ LET l == PostConditions(Logger(r), err, statusCode[ContextOf(r)])
         w == PostConditionsWriter(Writer(r))
     IN /\ sink' = [sink EXCEPT ![ContextOf(r)] = l.log]
        /\ pc' = [pc EXCEPT ![r] = IF l.panicked THEN "panicShim" ELSE "done"]
        /\ statusCode' = [statusCode EXCEPT ![ContextOf(r)] = w.statusCode]
        /\ contentLength' = [contentLength EXCEPT ![ContextOf(r)] = w.contentLength]
        /\ wire' = [wire EXCEPT ![ContextOf(r)] = w.wire]
  /\ retErr' = [retErr EXCEPT ![r] = err]
  /\ innerErr' = [innerErr EXCEPT ![r] = inner]
  /\ UNCHANGED <<devSink, header, escapeHatchUsed, calls, callErr, ctx,
                 loggersMade>>
  /\ UNCHANGED groupVars

\* The composed handler is the handler itself: h(c) returns what it returns.
HandlerReturn(r, err) == ReturnStep(r, err, err)

\* The handler is wrapped in k middleware made by ClassicMiddlewareShim, each
\* around a classic middleware that calls its next: h(c) returns what the
\* outermost wrapper returns.
ClassicReturn(r, k, err) == ReturnStep(r, err, ThroughShims(k, err))

Next ==
  \E r \in Reqs :
    \/ \E dev \in BOOLEAN : Dispatch(r, dev)
    \/ \E code \in Codes : RespStatus(r, code)
    \/ \E code \in Codes : \E len \in BodyLens : \E ok \in BOOLEAN :
         RespBytes(r, code, len, ok)
    \/ \E via \in BOOLEAN : \E code \in Codes : RawWriteHeader(r, via, code)
    \/ \E via \in BOOLEAN : \E len \in BodyLens : \E ok \in BOOLEAN :
         RawWrite(r, via, len, ok)
    \/ \E level \in Levels : HandlerLog(r, level)
    \/ \E level \in Levels : HandlerLogf(r, level)
    \/ HandlerPanic(r)
    \/ \E err \in Errs \cup {Nil} : HandlerReturn(r, err)
    \/ \E k \in 1..MaxShims : \E err \in Errs \cup {Nil} : ClassicReturn(r, k, err)

Spec == Init /\ [][Next]_vars

(***************************************************************************)
(* One request whose handler uses the response facade only: it may set the *)
(* Content-Type itself, calls the response operations with valid status    *)
(* codes, and returns what its last call returned.  The sink is a          *)
(* production sink.                                                        *)
(***************************************************************************)
ValidCodes == {c \in Codes : c >= MinStatus /\ c <= MaxStatus}
\* The reader of a Stream call: its seeks are never called.
Readers == {s \in Streams : s.fails = "none"}
\* The file of a File call: os.Open leaves it at position 0.
Files == {s \in Streams : s.pos = 0}

NextResponse ==
  \E r \in Reqs :
    \/ Dispatch(r, FALSE)
    \/ \E value \in ContentTypes : HandlerSetHeader(r, value)
    \/ \E code \in ValidCodes : RespStatus(r, code)
    \/ \E code \in ValidCodes : \E len \in BodyLens : \E ok \in BOOLEAN :
         RespBytes(r, code, len, ok)
    \/ \E code \in ValidCodes : \E len \in BodyLens : \E ok \in BOOLEAN :
         RespString(r, code, len, ok)
    \/ \E code \in ValidCodes : \E len \in BodyLens : \E ok \in BOOLEAN :
         RespStruct(r, code, len, ok)
    \/ \E code \in ValidCodes : \E stream \in Readers : RespStream(r, code, stream)
    \/ \E code \in ValidCodes : \E stream \in Streams :
         RespStreamReadSeeker(r, code, stream)
    \/ \E code \in ValidCodes : \E opened \in BOOLEAN : \E stream \in Files :
         RespFile(r, code, opened, stream)
    \/ HandlerReturn(r, callErr[r])

SpecResponse == Init /\ [][NextResponse]_vars

(***************************************************************************)
(* One request whose middleware and leaf set and keep context values.      *)
(***************************************************************************)
NextContext ==
  \E r \in Reqs :
    \/ Dispatch(r, FALSE)
    \/ \E key \in CtxKeys : \E value \in CtxVals : CtxSetValue(r, key, value)
    \/ CtxKeep(r)
    \/ \E code \in ValidCodes : RespStatus(r, code)
    \/ HandlerReturn(r, Nil)

SpecContext == Init /\ [][NextContext]_vars

(***************************************************************************)
(* Two requests served concurrently: net/http runs each invocation of the  *)
(* closure on its own goroutine, and the steps of the two interleave.      *)
(***************************************************************************)
ConcReqs == {"r1", "r2"}
ConcLevels == {"Info", "Error"}

InitConc == InitGroups /\ InitReqsOver(ConcReqs)

NextConc ==
  \E r \in ConcReqs :
    \/ Dispatch(r, FALSE)
    \/ \E code \in ValidCodes : RespStatus(r, code)
    \/ \E len \in BodyLens : RawWrite(r, FALSE, len, TRUE)
    \/ \E level \in ConcLevels : HandlerLog(r, level)
    \/ \E err \in Errs \cup {Nil} : HandlerReturn(r, err)

SpecConc == InitConc /\ [][NextConc]_vars

(***************************************************************************)
(* Claims about the request lifecycle (checked under Spec)                 *)
(***************************************************************************)
\* h(c) returned and the closure has ended, by returning or by a panic of
\* the sink inside the post-conditions.
Returned(r) == pc[r] \in {"done", "panicShim"}
ByShim(r) == SelectSeq(sink[r], LAMBDA e : e.by = "shim")
ShimAt(r, level) == SelectSeq(ByShim(r), LAMBDA e : e.level = level)
Flushes(r) == SelectSeq(sink[r], LAMBDA e : e.level = "WriteLogs")
Contains(msg, fragment) == \E i \in 1..Len(msg) : msg[i] = fragment

\* C1: once the composed handler has returned, the wrapper has called
\* WriteLogs exactly once and that call is the last one on the sink.
C1_FlushOnceAndLast ==
  \A r \in Reqs :
    Returned(r) =>
      /\ Len(Flushes(r)) = 1
      /\ sink[r][Len(sink[r])].level = "WriteLogs"

\* C6: a handler that returned with no status written has exactly one
\* fatal-bug event "Handler didn't write a response" from the wrapper and
\* exactly one flush; with a non-zero tracked status the wrapper logs no
\* fatal-bug event.
C6_NoStatusOneFatalOneFlush ==
  \A r \in Reqs :
    Returned(r) =>
      /\ statusCode[r] = 0 =>
           /\ Len(SelectSeq(ShimAt(r, "WTF"),
                            LAMBDA e : Contains(e.msg, NoResponseMsg[1]))) = 1
           /\ Len(Flushes(r)) = 1
      /\ statusCode[r] # 0 => ShimAt(r, "WTF") = <<>>

\* C7: a handler that returned a non-nil error has exactly one Error event
\* from the wrapper, holding the error's message, and the flush occurs; a
\* handler that returned nil has no Error event from the wrapper.
C7_ErrorLoggedOnceAndFlushed ==
  \A r \in Reqs :
    Returned(r) =>
      /\ retErr[r] # Nil =>
           /\ Len(ShimAt(r, "Error")) = 1
           /\ Contains(ShimAt(r, "Error")[1].msg, retErr[r])
           /\ Len(Flushes(r)) = 1
      /\ retErr[r] = Nil => ShimAt(r, "Error") = <<>>

BeforeFlush(r) == SelectSeq(ByShim(r), LAMBDA e : e.level # "WriteLogs")
LevelsOf(es) == [i \in 1..Len(es) |-> es[i].level]

C9_TrackedStatusIsSentStatus ==
  \A r \in Reqs :
    (pc[r] = "handler" \/ Returned(r)) =>
      /\ statusCode[r] = wire[r].status
      /\ (statusCode[r] = 0) <=> ~wire[r].wroteHeader

\* C10: a handler whose only call is Response.Status(code), code non-zero,
\* has tracked status code, zero tracked bytes and Content-Length "0", and
\* the wrapper then logs no fatal-bug event.
C10_StatusOnly ==
  \A r \in Reqs :
    (Len(calls[r]) = 1 /\ calls[r][1].op = "Status" /\ calls[r][1].code # 0) =>
      /\ statusCode[r] = calls[r][1].code
      /\ contentLength[r] = 0
      /\ header[r]["Content-Length"] = <<"0">>
      /\ ShimAt(r, "WTF") = <<>>

C10_Witness ==
  \E r \in Reqs :
    /\ pc[r] = "done"
    /\ calls[r] = <<[op |-> "Status", code |-> 204]>>
    /\ statusCode[r] = 204 /\ wire[r].status = 204 /\ wire[r].bytes = 0
    /\ LevelsOf(sink[r]) = <<"WriteLogs">>

ContentType(h) == h["Content-Type"]
BytesStep(r) ==
  \E code \in Codes : \E len \in BodyLens : \E ok \in BOOLEAN :
    RespBytes(r, code, len, ok)
StringStep(r) ==
  \E code \in Codes : \E len \in BodyLens : \E ok \in BOOLEAN :
    RespString(r, code, len, ok)
\* C11: Bytes and String leave a Content-Type the handler already set as it
\* is, whatever value it was set to, and set it only when it is absent:
\* Bytes to application/octet-stream, String to text/plain.
C11_ContentTypeKept ==
  [][\A r \in Reqs :
       /\ BytesStep(r) =>
            ContentType(header'[r]) =
              IF ContentType(header[r]) # <<>> THEN ContentType(header[r])
              ELSE <<OctetStream>>
       /\ StringStep(r) =>
            ContentType(header'[r]) =
              IF ContentType(header[r]) # <<>> THEN ContentType(header[r])
              ELSE <<TextPlain>>]_vars

ContentLengthHeader(h) == h["Content-Length"]
\* The step is a call of the response operation op by the handler of r.
Called(r, op) ==
  /\ Len(calls'[r]) = Len(calls[r]) + 1
  /\ calls'[r][Len(calls'[r])].op = op
CalledCode(r) == calls'[r][Len(calls'[r])].code
ResponseEntry(level, msg) == [level |-> level, msg |-> msg, by |-> "response"]
\* The body went out as Stream sends it: the status, then what the reader
\* still held.
Streamed(r, code, stream) ==
  LET n == IF stream.ok THEN Remaining(stream) ELSE 0
  IN /\ statusCode'[r] = code
     /\ wire'[r].wroteHeader
     /\ contentLength'[r] = contentLength[r] + n
     /\ wire'[r].bytes = wire[r].bytes + n
\* The fallback: a Warning about the failed seek, the Info, then Stream, and
\* the Content-Length header is left as it was.
FellBack(r, code, stream, format) ==
  /\ sink'[r] = sink[r] \o <<ResponseEntry("Warning", <<format[1], SeekErr>>),
                              ResponseEntry("Info", FallbackMsg)>>
  /\ Streamed(r, code, stream)
  /\ ContentLengthHeader(header'[r]) = ContentLengthHeader(header[r])
LengthSet(r, stream) ==
  ContentLengthHeader(header'[r]) = <<FormatInt(stream.size - stream.pos)>>

\* C12 as claimed: StreamReadSeeker sets Content-Length to end - current
\* exactly when the current-position seek and the end-position seek both
\* succeed; when either fails it logs a Warning and then streams with Stream
\* without setting Content-Length.
C12_LengthIffBothSeeks ==
  [][\A r \in Reqs : Called(r, "StreamReadSeeker") =>
       \A code \in {CalledCode(r)} : \A stream \in Streams :
       RespStreamReadSeeker(r, code, stream) =>
         /\ stream.fails \notin {"current", "end"} =>
              LengthSet(r, stream) /\ Streamed(r, code, stream)
         /\ stream.fails = "current" => FellBack(r, code, stream, CurrentPosFormat)
         /\ stream.fails = "end" => FellBack(r, code, stream, TotalLenFormat)]_vars

\* C12 as amended: StreamReadSeeker sets Content-Length to end - current and
\* streams exactly when all three seeks succeed (current position, end,
\* and the seek that restores the position); when the current-position or
\* the end-position seek fails it logs a Warning, then an Info, and streams
\* with Stream, leaving Content-Length as it was; when only the restoring
\* seek fails it neither sets Content-Length nor streams.
C12_LengthIffAllSeeks ==
  [][\A r \in Reqs : Called(r, "StreamReadSeeker") =>
       \A code \in {CalledCode(r)} : \A stream \in Streams :
       RespStreamReadSeeker(r, code, stream) =>
         /\ stream.fails = "none" =>
              /\ LengthSet(r, stream) /\ Streamed(r, code, stream)
              /\ sink'[r] = sink[r]
         /\ stream.fails = "current" => FellBack(r, code, stream, CurrentPosFormat)
         /\ stream.fails = "end" => FellBack(r, code, stream, TotalLenFormat)
         /\ stream.fails = "restore" =>
              /\ ContentLengthHeader(header'[r]) = ContentLengthHeader(header[r])
              /\ wire'[r] = wire[r]]_vars

\* A stream of one byte read to its end was announced with Content-Length
\* "0", and before it a fallback streamed with no Content-Length at all.
C12_Witness ==
  \E r \in Reqs :
    /\ Len(calls[r]) = 2
    /\ calls[r][1].op = "StreamReadSeeker" /\ calls[r][2].op = "StreamReadSeeker"
    /\ LevelsOf(sink[r]) = <<"Warning", "Info">>
    /\ contentLength[r] = 1
    /\ ContentLengthHeader(header[r]) = <<"0">>

\* C13: within one request, across the response-writing operations (Status,
\* Bytes, String, Struct, Stream, StreamReadSeeker, File), a tracked status
\* that is non-zero is never replaced: it changes from 0 to non-zero at most
\* once.
C13_StatusWrittenOnce ==
  [][\A r \in Reqs :
       (pc[r] = "handler" /\ statusCode[r] # 0) =>
         statusCode'[r] = statusCode[r]]_vars

\* C15: when the restoring seek fails after both measuring seeks succeeded,
\* StreamReadSeeker returns a non-nil error, logs one Error and starts no
\* response: the tracked status, the bytes counter, the transport and the
\* headers (Content-Length included) stay as they were.
C15_RestoreFailureAborts ==
  [][\A r \in Reqs : Called(r, "StreamReadSeeker") =>
       \A code \in {CalledCode(r)} : \A stream \in Streams :
       (stream.fails = "restore" /\ RespStreamReadSeeker(r, code, stream)) =>
         /\ callErr'[r] = AbortErr /\ callErr'[r] # Nil
         /\ sink'[r] = sink[r] \o <<ResponseEntry("Error", <<RestoreFormat[1], SeekErr>>)>>
         /\ statusCode'[r] = statusCode[r]
         /\ contentLength'[r] = contentLength[r]
         /\ wire'[r] = wire[r]
         /\ header'[r] = header[r]]_vars

\* The handler's only call was a StreamReadSeeker whose restoring seek
\* failed, and it returned that error: nothing was sent and the wrapper
\* logged the error and the missing response.
C15_Witness ==
  \E r \in Reqs :
    /\ pc[r] = "done" /\ retErr[r] = AbortErr
    /\ calls[r] = <<[op |-> "StreamReadSeeker", code |-> 204]>>
    /\ statusCode[r] = 0 /\ ~wire[r].wroteHeader /\ contentLength[r] = 0
    /\ header[r] = NewHeader
    /\ LevelsOf(sink[r]) = <<"Error", "Error", "WTF", "WTF", "WriteLogs">>

\* C14: the post-conditions of the wrapper never write to the response:
\* when h(c) returns, whatever it returned and whether or not it wrote a
\* status, the tracked status, the bytes counter, the transport and the
\* headers are after the wrapper's step what they were when the handler
\* returned (no default 500 or other status is synthesised).
C14_PostConditionsWriteNothing ==
  [][\A r \in Reqs : \A err \in Errs \cup {Nil} :
       HandlerReturn(r, err) =>
         /\ statusCode'[r] = statusCode[r]
         /\ contentLength'[r] = contentLength[r]
         /\ wire'[r] = wire[r]
         /\ header'[r] = header[r]]_vars

\* The handler returned an error without writing anything; the wrapper
\* logged it, logged the missing response and flushed, and the response is
\* still unwritten.
C14_Witness ==
  \E r \in Reqs :
    /\ pc[r] = "done" /\ retErr[r] = "boom" /\ calls[r] = <<>>
    /\ statusCode[r] = 0 /\ contentLength[r] = 0
    /\ wire[r] = NewWire /\ header[r] = NewHeader
    /\ LevelsOf(sink[r]) = <<"Error", "WTF", "WTF", "WriteLogs">>

\* C17: however the invocation of a request ended (the handler returned,
\* the handler panicked, or the sink's WTF panicked inside the wrapper),
\* WriteLogs was called exactly once for it.
C17_FlushedWhateverTheOutcome ==
  \A r \in Reqs :
    pc[r] \in {"done", "panicHandler", "panicShim"} => Len(Flushes(r)) = 1

HandlerEntry(level, msg) == [level |-> level, msg |-> msg, by |-> "handler"]
HandlerFormatted == <<HandlerFormat[1], HandlerValue>>
\* The sink calls one facade call at level with message msg is to produce.
FacadeCalls(level, msg) ==
  IF level = "WTF"
    THEN <<HandlerEntry("WTF", msg), HandlerEntry("WTF", StackTraceMsg)>>
    ELSE <<HandlerEntry(level, msg)>>

FacadeCallsOn(dev, level, msg) ==
  IF level = "WTF" /\ dev THEN <<HandlerEntry("WTF", msg)>>
  ELSE FacadeCalls(level, msg)

C19_ErrorThroughClassicShims ==
  \A r \in Reqs :
    (Returned(r) /\ innerErr[r] # Nil) =>
      /\ retErr[r] = innerErr[r]
      /\ Len(ShimAt(r, "Error")) = 1
      /\ Contains(ShimAt(r, "Error")[1].msg, innerErr[r])

(***************************************************************************)
(* Claims about context values (checked under SpecContext)                 *)
(***************************************************************************)
\* What c.Context and an older context value answer after a step.
ReadAfter(r, key) == Value(ctx'[r].nodes, ctx'[r].cur, key)
ReadOldAfter(r, id, key) == Value(ctx'[r].nodes, id, key)
Read(r, key) == Value(ctx[r].nodes, ctx[r].cur, key)
ReadOld(r, id, key) == Value(ctx[r].nodes, id, key)
SetValueStep(r) == \E key \in CtxKeys : \E value \in CtxVals : CtxSetValue(r, key, value)

\* C20: SetValue(key, value) layers a new context value over the old one:
\* every context value obtained before the call (Background and each
\* earlier layer, the one the handler kept among them) answers for every key
\* what it answered before, so it does not see the new key; c.Context
\* answers value for key and what it answered before for every other key;
\* and until the next SetValue every later step of the request (the inner
\* middleware, the leaf) reads the same values from c.Context.
C20_SetValueLayers ==
  [][\A r \in Reqs :
       /\ \A key \in CtxKeys : \A value \in CtxVals :
            CtxSetValue(r, key, value) =>
              /\ ReadAfter(r, key) = value
              /\ \A other \in CtxKeys \ {key} : ReadAfter(r, other) = Read(r, other)
              /\ \A id \in 0..Len(ctx[r].nodes) : \A k \in CtxKeys :
                   ReadOldAfter(r, id, k) = ReadOld(r, id, k)
              /\ ctx'[r].kept = ctx[r].kept
       /\ (pc[r] = "handler" /\ ~SetValueStep(r)) =>
            \A k \in CtxKeys : ReadAfter(r, k) = Read(r, k)]_vars

\* The handler kept the context value holding user = a, then trace and a
\* new user were set: the kept value still answers user = a and no trace,
\* c.Context answers user = b and trace = a.
C20_Witness ==
  \E r \in Reqs :
    /\ pc[r] = "done"
    /\ Len(ctx[r].nodes) = 3 /\ ctx[r].kept = 1
    /\ ReadOld(r, ctx[r].kept, "user") = "a"
    /\ ReadOld(r, ctx[r].kept, "trace") = Nil
    /\ Read(r, "user") = "b" /\ Read(r, "trace") = "a"

(***************************************************************************)
(* Claims about concurrent requests (checked under SpecConc)               *)
(***************************************************************************)
\* Request q takes no part in a step: each step of a request moves its pc
\* or extends its calls.
Idle(q) == pc'[q] = pc[q] /\ calls'[q] = calls[q]
LogStep(r) == \E level \in ConcLevels : HandlerLog(r, level)
ReturnSteps(r) == \E err \in Errs \cup {Nil} : HandlerReturn(r, err)
C16_OneLoggerEach ==
  \A r \in ConcReqs :
    /\ pc[r] = "idle" => loggersMade[r] = 0 /\ sink[r] = <<>>
    /\ pc[r] # "idle" => loggersMade[r] = 1
C16_Step ==
  \A r \in ConcReqs :
    /\ Idle(r) =>
         /\ sink'[r] = sink[r]
         /\ statusCode'[r] = statusCode[r]
         /\ contentLength'[r] = contentLength[r]
    /\ LogStep(r) => Len(sink'[r]) = Len(sink[r]) + 1
    /\ ReturnSteps(r) =>
         /\ Len(sink'[r]) > Len(sink[r])
         /\ Flushes(r)' = <<[level |-> "WriteLogs", msg |-> <<>>, by |-> "shim"]>>
\* C16: under every interleaving of two concurrently served requests, each
\* invocation has called the logger factory exactly once when its handler
\* runs; a step of one request leaves the other's sink, tracked status and
\* bytes counter as they were; and the log events and the flush of a
\* request arrive on its own sink.
C16_RequestsIsolated == []C16_OneLoggerEach /\ [][C16_Step]_vars

\* Both requests were served and are done, each with its own status, bytes
\* count and log record.
C16_Witness ==
  /\ pc["r1"] = "done" /\ pc["r2"] = "done"
  /\ statusCode["r1"] = 204 /\ statusCode["r2"] = 404
  /\ contentLength["r1"] = 1 /\ contentLength["r2"] = 0
  /\ LevelsOf(sink["r1"]) = <<"WriteLogs">>
  /\ LevelsOf(sink["r2"]) = <<"Info", "WriteLogs">>

(***************************************************************************)
(* Claims about groups, middleware and routes (checked under SpecGroups)   *)
(***************************************************************************)
LeafEvent(name) == [ev |-> "leaf", who |-> name]
PreEvents(ml) == [i \in 1..Len(ml) |-> [ev |-> "pre", who |-> ml[i]]]
PostEvents(ml) == [i \in 1..Len(ml) |-> [ev |-> "post", who |-> ml[Len(ml) + 1 - i]]]
\* m0 pre, ..., mk pre, leaf, mk post, ..., m0 post
NestedRun(ml, name) == PreEvents(ml) \o <<LeafEvent(name)>> \o PostEvents(ml)
\* The middleware a run entered, in the order it entered them.
Entered(events) == LET pre == SelectSeq(events, LAMBDA e : e.ev = "pre")
                   IN [i \in 1..Len(pre) |-> pre[i].who]
RouteRun(i) == RunHandler(ShimHandler(routes[i]))
\* What a step leaves behind, for a group or a route numbered before it.
GroupListAfter(g) == GroupList(g)'
RouteRunAfter(i) == RouteRun(i)'
RouteAfter(i) == routes'[i]
GroupAfter(g) == groups'[g]

C2_RegisterStep ==
  \A hg \in 1..Len(groups) : \A method \in Methods :
    RegisterRoute(hg, method, "/items", "leaf") =>
      \A new \in {Len(routes) + 1} :
        /\ RouteRunAfter(new) = NestedRun(GroupList(hg), "leaf")
        /\ (GroupList(hg) = <<>> => RouteRunAfter(new) = <<LeafEvent("leaf")>>)
C2_DispatchStep ==
  \A i \in 1..Len(routes) :
    DispatchRoute(i) => trace'.events = RouteRun(i) /\ trace'.route = i
\* C2: a route registered on a group whose list is [m0..mk] runs m0..mk
\* before the leaf in that order and after it in the reverse order, and with
\* an empty list the effective handler is the leaf itself; a dispatched
\* request produces exactly the events of its route's handler.
C2_FirstRegisteredOutermost == [][C2_RegisterStep /\ C2_DispatchStep]_vars

C2_Witness ==
  /\ trace.route # 0
  /\ Len(Entered(trace.events)) >= 2
  /\ Entered(trace.events) = GroupList(routes[trace.route].hg)
  /\ trace.events = NestedRun(Entered(trace.events), "leaf")

C3_AddStep ==
  \A hg \in 1..Len(groups) : \A m \in AddInputs(hg) :
    AddMiddleware(hg, m) =>
      /\ Len(groups') = Len(groups)
      /\ \A g \in 1..Len(groups) :
           g # hg => /\ GroupListAfter(g) = GroupList(g)
                     /\ GroupAfter(g).parent = groups[g].parent
      /\ \A i \in 1..Len(routes) : routes[i].hg # hg => RouteRunAfter(i) = RouteRun(i)
\* C3: an AddMiddleware call on one group changes the list of no other
\* group (parent, child or sibling) and the run of no route registered on
\* another group, so it changes nothing that is or will be run for the other
\* groups' routes.
C3_CopyOnDerive == [][C3_AddStep]_vars

\* A parent with two children; the parent and one child were extended after
\* the derivations, and the other child still has the list it was derived
\* with and added to, with a route registered on it.
C3_Witness ==
  \E p, c, d \in 1..Len(groups) :
    /\ c # d /\ groups[c].parent = p /\ groups[d].parent = p
    /\ GroupList(p) = <<Mw(p, 1), Mw(p, 2)>>
    /\ GroupList(c) = <<Mw(p, 1), Mw(c, 2)>>
    /\ GroupList(d) = <<Mw(p, 1), Mw(d, 2), Mw(d, 3)>>
    /\ \E i \in 1..Len(routes) :
         routes[i].hg = c /\ Entered(RouteRun(i)) = <<Mw(p, 1), Mw(c, 2)>>

C4_Step ==
  /\ \A i \in 1..Len(routes) :
       /\ Len(routes') >= i
       /\ RouteRunAfter(i) = RouteRun(i)
  /\ \A hg \in 1..Len(groups) : \A method \in Methods :
       RegisterRoute(hg, method, "/items", "leaf") =>
         \A new \in {Len(routes) + 1} : Entered(RouteRunAfter(new)) = GroupList(hg)
C5_Step ==
  /\ \A ohg \in 1..Len(groups) :
       GetHandlerGroup(ohg, "/v1") =>
         \A new \in {Len(groups) + 1} :
           /\ GroupListAfter(new) = GroupList(ohg)
           /\ GroupAfter(new).parent = ohg
           /\ GroupAfter(new).basePath = groups[ohg].basePath \o "/v1"
  /\ \A hg \in 1..Len(groups) : \A m \in AddInputs(hg) :
       AddMiddleware(hg, m) => GroupList(hg)' = GroupList(hg) \o m
  /\ \A hg \in 1..Len(groups) : \A method \in Methods :
       (groups[hg].parent # NoGroup /\ RegisterRoute(hg, method, "/items", "leaf")) =>
         \A new \in {Len(routes) + 1} :
           /\ RouteRunAfter(new) = NestedRun(GroupList(hg), "leaf")
           /\ RouteAfter(new).path = groups[hg].basePath \o "/items"
RECURSIVE IsAncestorOrSelf(_, _)
IsAncestorOrSelf(a, g) ==
  IF g = NoGroup THEN FALSE
  ELSE IF a = g THEN TRUE ELSE IsAncestorOrSelf(a, groups[g].parent)
C5_Chains ==
  \A i \in 1..Len(routes) :
    LET ws == Entered(RouteRun(i))
    IN \A k \in 1..Len(ws) :
         /\ ws[k].k = k
         /\ IsAncestorOrSelf(ws[k].hg, routes[i].hg)
         /\ k < Len(ws) => IsAncestorOrSelf(ws[k].hg, ws[k + 1].hg)
\* C5: a derived group starts with the parent's list as it is at the moment
\* of derivation, in the parent's order; AddMiddleware appends to the group's
\* own list in call order; a route registered on a derived group runs the
\* group's list and then the leaf.  By induction over the derivations the
\* chain is the ancestors' lists as they were when each child was derived,
\* then the child's additions: every middleware of a chain stands at the
\* position its adder gave it, and the adders are the group or its ancestors,
\* oldest first.
C5_InheritedChain == []C5_Chains /\ [][C5_Step]_vars

\* parent [m1, m2] -> child adds [m3] -> grandchild adds [m4]; a request to
\* the grandchild's route GET /api/v1/v1/items entered m1, m2, m3, m4.
C5_Witness ==
  /\ trace.route # 0
  /\ LET rt == routes[trace.route]
         c == groups[rt.hg].parent
         p == IF c = NoGroup THEN NoGroup ELSE groups[c].parent
     IN /\ c # NoGroup /\ p # NoGroup
        /\ rt.path = "/api/v1/v1/items"
        /\ trace.events = NestedRun(<<Mw(p, 1), Mw(p, 2), Mw(c, 3), Mw(rt.hg, 4)>>, "leaf")

====
